---- MODULE Spec2Model ----
(***************************************************************************)
(* Verification model of the fake-news detection pipeline                  *)
(* (src/src/fake_news): the whitespace normalizer (preprocess.py), the     *)
(* CSV dataset loader (data.py) and the training / inference facade        *)
(* (model.py).                                                             *)
(*                                                                         *)
(* Strings that the code inspects character by character are sequences of  *)
(* one-character strings.  Probabilities are integers in 0..100 (percent), *)
(* so that "probability = threshold" is an exact comparison.               *)
(***************************************************************************)
EXTENDS Integers, Sequences, FiniteSets, TLC

VARIABLES
    text,          \* normalizer: the raw input string
    normalized,    \* normalizer: normalize_whitespace(text)
    renormalized,  \* normalizer: normalize_whitespace(normalized)
    npc,           \* normalizer: position of the caller
    file,          \* loader: the CSV file, column name -> sequence of cells
    loaded,        \* loader: what load_dataset_csv returned or raised
    lpc,           \* loader: position of the caller
    train,         \* pipeline: the training partition, records (text, label)
    val,           \* pipeline: the validation partition
    pipeline,      \* pipeline: the (fitted) pipeline object
    metrics,       \* pipeline: the metrics train_model returned
    call,          \* inference: the latest call, its function and arguments
    result,        \* inference: what the latest call returned or raised
    ipc,           \* pipeline: "start", "trained" or "failed"
    disk,          \* store: the model directory, whether it exists and its files
    disk0,         \* store: the model directory as it was at the start
    saver,         \* store: each save_model call, its position and locals
    last_done,     \* store: the saver whose save_model call returned last
    got,           \* store: what the latest load_model call returned or raised
    dataset,       \* splitter: the loaded dataset, records (index, text, label)
    val_size,      \* splitter: the validation fraction, in percent
    random_state,  \* splitter: the seed passed to train_val_split
    np_random,     \* splitter: the state of the process-wide random generator
    first,         \* splitter: what the first train_val_split call returned
    second,        \* splitter: what a second call with the same arguments returned
    ppc,           \* splitter: position of the caller
    app,           \* service: the app create_app built, with the model it holds
    request,       \* service: the /predict request being answered
    response,      \* service: the response to it
    run,           \* training: each train_main run, its position and locals
    cli,           \* command line: the outcome of a predict or evaluate run
    exchange       \* service: a request to a Gemini endpoint and its response

nvars == <<text, normalized, renormalized, npc>>
lvars == <<file, loaded, lpc>>
ivars == <<train, val, pipeline, metrics, call, result, ipc>>
svars == <<disk, disk0, saver, last_done, got>>
pvars == <<dataset, val_size, random_state, np_random, first, second, ppc>>
wvars == <<app, request, response>>
xvars == <<run, cli, exchange>>
vars == <<nvars, lvars, ivars, svars, pvars, wvars, xvars>>

(***************************************************************************)
(* Bounds                                                                  *)
(***************************************************************************)
MaxLen == 4        \* longest raw string given to the normalizer
MaxRows == 2       \* most data rows of a CSV file
TrainSize == 2     \* records of a training partition
ValSize == 1       \* records of a validation partition
MaxBatch == 2      \* most texts of one inference call

(***************************************************************************)
(* Text Normalizer -- preprocess.py                                        *)
(***************************************************************************)
\* The alphabet: two non-whitespace characters and three whitespace
\* characters (space, tab, newline), all matched by \s and by str.strip().
Letters == {"a", "b"}
Whitespace == {" ", "\t", "\n"}
Chars == Letters \cup Whitespace

\* the character class \s of _whitespace_re, which is also the class that
\* str.strip() with no argument removes
IsSpace(c) == c \in Whitespace

RECURSIVE lstrip(_)
lstrip(s) == IF s # <<>> /\ IsSpace(Head(s)) THEN lstrip(Tail(s)) ELSE s

RECURSIVE rstrip(_)
rstrip(s) ==
    IF s # <<>> /\ IsSpace(s[Len(s)])
    THEN rstrip(SubSeq(s, 1, Len(s) - 1))
    ELSE s

\* a faulty variant of strip: text.strip(" "), which removes spaces only
RECURSIVE lstrip_blank(_)
lstrip_blank(s) == IF s # <<>> /\ Head(s) = " " THEN lstrip_blank(Tail(s)) ELSE s

RECURSIVE rstrip_blank(_)
rstrip_blank(s) ==
    IF s # <<>> /\ s[Len(s)] = " "
    THEN rstrip_blank(SubSeq(s, 1, Len(s) - 1))
    ELSE s

strip_blank_only(s) == rstrip_blank(lstrip_blank(s))

\* text.strip()
strip(s) == rstrip(lstrip(s))

\* a faulty variant of whitespace_sub: the pattern \s without the +, so that every
\* whitespace character becomes a space of its own
RECURSIVE whitespace_sub_each(_)
whitespace_sub_each(s) ==
    IF s = <<>> THEN <<>>
    ELSE IF IsSpace(Head(s))
         THEN <<" ">> \o whitespace_sub_each(Tail(s))
         ELSE <<Head(s)>> \o whitespace_sub_each(Tail(s))

\* _whitespace_re.sub(" ", text): scanning from the left, every maximal run
\* of whitespace is replaced by one space, every other character is copied
RECURSIVE whitespace_sub(_)
whitespace_sub(s) ==
    IF s = <<>> THEN <<>>
    ELSE IF IsSpace(Head(s))
         THEN <<" ">> \o whitespace_sub(lstrip(Tail(s)))
         ELSE <<Head(s)>> \o whitespace_sub(Tail(s))

normalize_whitespace(t) == whitespace_sub(strip(t))

preprocess_texts(texts) ==
    [i \in 1..Len(texts) |-> normalize_whitespace(texts[i])]

\* every string over Chars of length at most n
StringsUpTo(n) == UNION {[1..k -> Chars] : k \in 0..n}

\* the components that a specification does not exercise stay idle
NormalizerIdle ==
    text = <<>> /\ normalized = <<>> /\ renormalized = <<>> /\ npc = "idle"

LoaderIdle == file = <<>> /\ loaded = <<>> /\ lpc = "idle"

InferIdle ==
    /\ train = <<>> /\ val = <<>> /\ pipeline = <<>> /\ metrics = <<>>
    /\ call = <<>> /\ result = <<>> /\ ipc = "idle"

StoreIdle ==
    /\ disk = <<>> /\ disk0 = <<>> /\ saver = <<>> /\ last_done = "none"
    /\ got = <<>>

SplitterIdle ==
    /\ dataset = <<>> /\ val_size = 0 /\ random_state = 0 /\ np_random = 0
    /\ first = <<>> /\ second = <<>> /\ ppc = "idle"

ServiceIdle == app = <<>> /\ request = <<>> /\ response = <<>>

TrainIdle == run = <<>>

FrontEndsIdle == cli = <<>> /\ exchange = <<>>

InitNormalize ==
    /\ text \in StringsUpTo(MaxLen)
    /\ normalized = <<>>
    /\ renormalized = <<>>
    /\ npc = "start"
    /\ LoaderIdle
    /\ InferIdle
    /\ StoreIdle
    /\ SplitterIdle
    /\ ServiceIdle
    /\ TrainIdle
    /\ FrontEndsIdle

\* a caller applies normalize_whitespace to the raw text
Normalize ==
    /\ npc = "start"
    /\ normalized' = normalize_whitespace(text)
    /\ npc' = "once"
    /\ UNCHANGED <<text, renormalized, lvars, ivars, svars, pvars, wvars, xvars>>

\* and applies it again to the result
NormalizeAgain ==
    /\ npc = "once"
    /\ renormalized' = normalize_whitespace(normalized)
    /\ npc' = "twice"
    /\ UNCHANGED <<text, normalized, lvars, ivars, svars, pvars, wvars, xvars>>

NextNormalize == Normalize \/ NormalizeAgain

SpecNormalize == InitNormalize /\ [][NextNormalize]_vars

(***************************************************************************)
(* Claims about the normalizer                                             *)
(***************************************************************************)
\* C8: normalize_whitespace is idempotent: normalizing an already
\* normalized string gives that string back, for every input string.
C8_Idempotent == npc = "twice" => renormalized = normalized

\* C8 witness: a string with leading whitespace other than a space and an
\* interior run has been normalized twice.
C8_Witness ==
    /\ npc = "twice"
    /\ Len(text) >= 4
    /\ text[1] = "\t"
    /\ normalized # text
    /\ Len(normalized) = 3

\* the non-whitespace characters of a string, in order
NonSpace(s) == SelectSeq(s, LAMBDA c : ~IsSpace(c))

\* the number of interior whitespace runs of a string: the whitespace
\* characters that follow a non-whitespace character and are followed,
\* somewhere, by another non-whitespace character
InteriorRuns(s) ==
    Cardinality({i \in 2..Len(s) :
        /\ IsSpace(s[i])
        /\ ~IsSpace(s[i - 1])
        /\ \E j \in (i + 1)..Len(s) : ~IsSpace(s[j])})

\* C9: the result has no leading or trailing whitespace, its only whitespace
\* is single spaces, one for each interior whitespace run of the input, and
\* its non-whitespace characters are the input's, in order; the function is
\* total (a result exists for every input string).
C9_Normalized ==
    npc \in {"once", "twice"} =>
        /\ normalized \in StringsUpTo(Len(text))
        /\ normalized # <<>> =>
               ~IsSpace(normalized[1]) /\ ~IsSpace(normalized[Len(normalized)])
        /\ \A i \in 1..Len(normalized) :
               IsSpace(normalized[i]) =>
                   normalized[i] = " " /\ ~IsSpace(normalized[i + 1])
        /\ Cardinality({i \in 1..Len(normalized) : normalized[i] = " "})
               = InteriorRuns(text)
        /\ NonSpace(normalized) = NonSpace(text)

\* C9 witness: an input with leading whitespace and an interior run of two
\* different whitespace characters has been normalized to "a b".
C9_Witness ==
    /\ npc = "once"
    /\ text = <<" ", "a", "\t", "\n", "b">> \/ text = <<"a", "\t", "\n", "b">>
    /\ normalized = <<"a", " ", "b">>

(***************************************************************************)
(* Dataset Loader -- data.py                                               *)
(*                                                                         *)
(* A CSV file is a function from its header's column names to the column's *)
(* cells, every cell the token written in the file ("" is an empty field). *)
(***************************************************************************)
\* the label tokens files are drawn from: the textual encodings in upper,
\* lower and mixed case, integers, an unknown word and the empty field
LabelTokens == {"FAKE", "real", "Fake", "TRUE", "false", "1", "2", "junk", ""}

\* the text tokens: a piece of prose, a text that reads as a number, the
\* empty field and the word NA
TextTokens == {"news", "7", "", "NA"}

\* the tokens pd.read_csv reads as NaN: the empty field and its default
\* na_values, of which NA stands here
NullTokens == {"", "NA"}

\* the tokens pd.read_csv parses as integers, and their values
IntLiterals == {"0", "1", "2", "7"}

int_of(tok) ==
    CASE tok = "0" -> 0 [] tok = "1" -> 1 [] tok = "2" -> 2 [] tok = "7" -> 7

\* the tokens pd.read_csv parses as booleans (its default true_values and
\* false_values)
BoolTrue == {"True", "TRUE", "true"}
BoolFalse == {"False", "FALSE", "false"}

Cells(col) == {col[i] : i \in 1..Len(col)}

AllInts(col) == (Cells(col) \ NullTokens) \subseteq IntLiterals
AllBools(col) ==
    /\ ~AllInts(col)
    /\ (Cells(col) \ NullTokens) \subseteq (BoolTrue \cup BoolFalse)

\* the dtype pd.read_csv infers for a column: integers give int64, or
\* float64 when a cell is missing; booleans give bool, or object when a cell
\* is missing; anything else (and a column of no rows) gives object
column_dtype(col) ==
    LET hasNull == Cells(col) \cap NullTokens # {}
    IN  IF Len(col) = 0 THEN "object"
        ELSE IF AllInts(col) THEN (IF hasNull THEN "float64" ELSE "int64")
        ELSE IF AllBools(col) THEN (IF hasNull THEN "object" ELSE "bool")
        ELSE "object"

\* the value pd.read_csv stores for cell i of a column: NaN, a number, a
\* Python bool, or the token as a str.  num is the value int() gives it.
parse_cell(col, i) ==
    LET tok == col[i]
    IN  IF tok \in NullTokens THEN [kind |-> "nan", tok |-> tok, num |-> 0]
        ELSE IF AllInts(col)
             THEN [kind |-> IF column_dtype(col) = "int64" THEN "int" ELSE "float",
                   tok |-> tok, num |-> int_of(tok)]
        ELSE IF AllBools(col)
             THEN [kind |-> "bool", tok |-> tok,
                   num |-> IF tok \in BoolTrue THEN 1 ELSE 0]
        ELSE [kind |-> "str", tok |-> tok, num |-> 0]

\* pd.read_csv(csv_path): every column with its dtype and its values
read_csv(f) ==
    [c \in DOMAIN f |->
        [dtype |-> column_dtype(f[c]),
         values |-> [i \in 1..Len(f[c]) |-> parse_cell(f[c], i)]]]

\* the number of rows of a data frame
nrows(df) == IF DOMAIN df = {} THEN 0 ELSE Len(df[CHOOSE c \in DOMAIN df : TRUE].values)

\* the mapping table of _normalize_labels
mapping ==
    [k \in {"FAKE", "fake", "FALSE", "false", "REAL", "real", "TRUE", "true"} |->
        IF k \in {"FAKE", "fake", "FALSE", "false"} THEN 1 ELSE 0]

\* a faulty variant of map_label: mapping.get(v, 0), an unknown label becomes 0
map_label_default_zero(v) ==
    IF v.kind = "str" /\ v.tok \in DOMAIN mapping
    THEN [kind |-> "int", tok |-> v.tok, num |-> mapping[v.tok]]
    ELSE [kind |-> "int", tok |-> v.tok, num |-> 0]

\* lambda v: mapping.get(v, v): a str that is a key of the table becomes its
\* integer; any other value (a str that is no key, a Python bool) is kept
map_label(v) ==
    IF v.kind = "str" /\ v.tok \in DOMAIN mapping
    THEN [kind |-> "int", tok |-> v.tok, num |-> mapping[v.tok]]
    ELSE v

\* .astype(int) on one value: numbers and bools convert, a str converts when
\* int() parses it, and anything else raises ValueError
can_astype_int(v) ==
    \/ v.kind \in {"int", "float", "bool"}
    \/ v.kind = "str" /\ v.tok \in IntLiterals

astype_int(v) == IF v.kind = "str" THEN int_of(v.tok) ELSE v.num

\* _normalize_labels(series)
_normalize_labels(series) ==
    LET vals == IF series.dtype = "object"
                THEN [i \in 1..Len(series.values) |-> map_label(series.values[i])]
                ELSE series.values
    IN  IF \A i \in 1..Len(vals) : can_astype_int(vals[i])
        THEN [ok |-> TRUE, values |-> [i \in 1..Len(vals) |-> astype_int(vals[i])]]
        ELSE [ok |-> FALSE, values |-> <<>>]

\* a faulty variant of missing_columns: "and" for "or", the load goes on when only
\* one of the two columns is absent
missing_both_columns(columns, text_col, label_col) ==
    text_col \notin columns /\ label_col \notin columns

\* text_col not in df.columns or label_col not in df.columns
missing_columns(columns, text_col, label_col) ==
    text_col \notin columns \/ label_col \notin columns

\* the row indices of a data frame, in file order
row_index(df) == [i \in 1..nrows(df) |-> i]

\* a faulty variant of dropna: df.dropna() before the two columns are selected, so
\* that a missing cell of any column drops the row
dropna_any_column(df, text_col, label_col) ==
    LET complete(i) == \A c \in DOMAIN df : df[c].values[i].kind # "nan"
    IN  SelectSeq(row_index(df), complete)

\* df[[text_col, label_col]].dropna(): the indices of the rows that have a
\* value in both selected columns
dropna(df, text_col, label_col) ==
    LET complete(i) == \A c \in {text_col, label_col} : df[c].values[i].kind # "nan"
    IN  SelectSeq(row_index(df), complete)

\* .astype(str) on one value of the text column: a str is itself, an int64
\* prints as its digits and a float64 with a decimal point
astype_str(v) ==
    CASE v.kind = "str" -> v.tok
      [] v.kind = "int" -> v.tok
      [] v.kind = "float" ->
             CASE v.tok = "0" -> "0.0" [] v.tok = "1" -> "1.0"
               [] v.tok = "2" -> "2.0" [] v.tok = "7" -> "7.0"
      [] v.kind = "bool" -> IF v.tok \in BoolTrue THEN "True" ELSE "False"
      [] OTHER -> "nan"

\* load_dataset_csv raised: the ValueError of data.py line 39 is the spec's
\* SchemaError, the ValueError of astype(int) its LabelFormatError
Raised(kind) == [status |-> kind, rows |-> <<>>]

\* load_dataset_csv(csv_path, text_col, label_col)
load_dataset_csv(f, text_col, label_col) ==
    LET df == read_csv(f)
    IN  IF missing_columns(DOMAIN df, text_col, label_col)
        THEN Raised("SchemaError")
        ELSE IF ~({text_col, label_col} \subseteq DOMAIN df)
        THEN Raised("KeyError")
        ELSE LET kept == dropna(df, text_col, label_col)
                 labels == _normalize_labels(
                     [dtype |-> df[label_col].dtype,
                      values |-> [k \in 1..Len(kept) |-> df[label_col].values[kept[k]]]])
             IN  IF ~labels.ok
                 THEN Raised("LabelFormatError")
                 ELSE [status |-> "ok",
                       rows |-> [k \in 1..Len(kept) |->
                           [index |-> kept[k],
                            text |-> astype_str(df[text_col].values[kept[k]]),
                            label |-> labels.values[k]]]]

\* the files of n rows: a header that holds any non-empty choice of the text
\* column, the label column and one further column, which is all filled or
\* all empty
OtherColumns(n) == {[i \in 1..n |-> "x"], [i \in 1..n |-> ""]}

Headers == (SUBSET {"text", "label", "other"}) \ {{}}

\* the file with header cols whose columns are t, l and o
file_of(cols, t, l, o) ==
    [c \in cols |-> CASE c = "text" -> t [] c = "label" -> l [] OTHER -> o]

InitLoad ==
    /\ \E n \in 0..MaxRows, cols \in Headers :
           \E t \in [1..n -> TextTokens], l \in [1..n -> LabelTokens],
              o \in OtherColumns(n) :
               file = file_of(cols, t, l, o)
    /\ loaded = <<>>
    /\ lpc = "start"
    /\ NormalizerIdle
    /\ InferIdle
    /\ StoreIdle
    /\ SplitterIdle
    /\ ServiceIdle
    /\ TrainIdle
    /\ FrontEndsIdle

\* a caller loads the file with the default column names
Load ==
    /\ lpc = "start"
    /\ loaded' = load_dataset_csv(file, "text", "label")
    /\ lpc' = "loaded"
    /\ UNCHANGED <<file, nvars, ivars, svars, pvars, wvars, xvars>>

NextLoad == Load

SpecLoad == InitLoad /\ [][NextLoad]_vars

(***************************************************************************)
(* Claims about the loader                                                 *)
(***************************************************************************)
\* the file has both columns the loader is asked for
HasBothColumns == {"text", "label"} \subseteq DOMAIN file

\* the rows of the file that have a text and a label: neither cell is empty
\* or a token the CSV reader takes for a missing value
CompleteRows ==
    {i \in 1..Len(file["text"]) :
        file["text"][i] \notin NullTokens /\ file["label"][i] \notin NullTokens}

\* a textual label in upper case, whatever its case in the file
UpperCase(tok) ==
    CASE tok \in {"FAKE", "Fake", "fake"} -> "FAKE"
      [] tok \in {"FALSE", "False", "false"} -> "FALSE"
      [] tok \in {"REAL", "Real", "real"} -> "REAL"
      [] tok \in {"TRUE", "True", "true"} -> "TRUE"
      [] OTHER -> tok

TextualLabels == {"FAKE", "FALSE", "REAL", "TRUE"}

\* the label tokens that are neither numeric nor a textual encoding
UnknownLabels ==
    {tok \in LabelTokens \ NullTokens :
        tok \notin IntLiterals /\ UpperCase(tok) \notin TextualLabels}

\* C3: every label of a dataset that loaded without error is 0 or 1.
C3_LabelsBinary ==
    (lpc = "loaded" /\ loaded.status = "ok") =>
        \A k \in 1..Len(loaded.rows) : loaded.rows[k].label \in {0, 1}

\* C4: FAKE and FALSE load as 1, REAL and TRUE as 0, in upper, lower or
\* mixed case: a file whose labels are all such encodings loads, and every
\* record carries the class of its token.
C4_TextualLabelsAnyCase ==
    (/\ lpc = "loaded"
     /\ HasBothColumns
     /\ \A i \in CompleteRows : UpperCase(file["label"][i]) \in TextualLabels) =>
        /\ loaded.status = "ok"
        /\ \A k \in 1..Len(loaded.rows) :
               loaded.rows[k].label =
                   IF UpperCase(file["label"][loaded.rows[k].index]) \in {"FAKE", "FALSE"}
                   THEN 1 ELSE 0

\* C5: loading a file that lacks the text column or the label column fails
\* with a SchemaError and returns no records.
C5_MissingColumnFails ==
    (lpc = "loaded" /\ ~HasBothColumns) =>
        loaded.status = "SchemaError" /\ loaded.rows = <<>>

\* C5 witness: a file with texts but no label column was refused.
C5_Witness ==
    /\ lpc = "loaded"
    /\ "text" \in DOMAIN file
    /\ "label" \notin DOMAIN file
    /\ Len(file["text"]) >= 1
    /\ file["text"][1] = "news"
    /\ loaded.status = "SchemaError"

\* C6: a label of a complete row that is neither numeric nor a textual
\* encoding makes the whole load fail with a LabelFormatError: no record is
\* returned, and the label is mapped to no class.
C6_UnknownLabelFails ==
    (/\ lpc = "loaded"
     /\ HasBothColumns
     /\ \E i \in CompleteRows : file["label"][i] \in UnknownLabels) =>
        loaded.status = "LabelFormatError" /\ loaded.rows = <<>>

\* C6 witness: a file with one well-labelled row and one row labelled with
\* an unknown word was refused as a whole.
C6_Witness ==
    /\ lpc = "loaded"
    /\ HasBothColumns
    /\ \E i, j \in CompleteRows :
           file["label"][i] = "junk" /\ file["label"][j] = "FAKE"
    /\ loaded.status = "LabelFormatError"
    /\ loaded.rows = <<>>

\* C7: the loaded dataset holds exactly the rows of the file that have both
\* a text and a label, in file order, each once, with a text and an integer
\* label; incomplete rows are dropped before the labels are normalized, so
\* the label of a dropped row cannot fail the load.
C7_IncompleteRowsDropped ==
    (lpc = "loaded" /\ HasBothColumns) =>
        /\ loaded.status = "ok" =>
               /\ {loaded.rows[k].index : k \in 1..Len(loaded.rows)} = CompleteRows
               /\ \A j, k \in 1..Len(loaded.rows) :
                      j < k => loaded.rows[j].index < loaded.rows[k].index
               /\ \A k \in 1..Len(loaded.rows) :
                      /\ loaded.rows[k].text \notin NullTokens \cup {"nan"}
                      /\ loaded.rows[k].label \in Int
        /\ CompleteRows = {} => loaded.status = "ok" /\ loaded.rows = <<>>

\* C7 witness: of two rows, the one without a label was dropped and the
\* other, whose cell in a further column is empty, was kept.
C7_Witness ==
    /\ lpc = "loaded"
    /\ DOMAIN file = {"text", "label", "other"}
    /\ Len(file["text"]) >= 2
    /\ file["label"][1] = ""
    /\ file["text"][1] = "news"
    /\ file["other"][2] = ""
    /\ loaded.status = "ok"
    /\ Len(loaded.rows) >= 1
    /\ loaded.rows[1].index = 2

\* C24: the integer the loader assigns to a label token depends only on the
\* token, not on the other values of its column: TRUE and true load as 0,
\* FALSE and false as 1, also in a column that holds nothing but such
\* values (which the CSV reader types as boolean).
C24_LabelOfTokenAlone ==
    (lpc = "loaded" /\ HasBothColumns /\ loaded.status = "ok") =>
        \A k \in 1..Len(loaded.rows) :
            LET tok == file["label"][loaded.rows[k].index]
            IN  /\ tok \in {"TRUE", "true"} => loaded.rows[k].label = 0
                /\ tok \in {"FALSE", "false"} => loaded.rows[k].label = 1

(***************************************************************************)
(* Feature/Model Pipeline and Inference Facade -- model.py                 *)
(*                                                                         *)
(* The scikit-learn pipeline is modelled by what the code relies on: fit   *)
(* learns a vocabulary and one coefficient per vocabulary term from the    *)
(* texts it is given; predict_proba scores a text from the coefficients of *)
(* the vocabulary terms it holds and fits nothing.  A letter of the        *)
(* alphabet stands for a word.  Calls are atomic: predict_proba and        *)
(* predict_label keep their intermediate values in locals and share        *)
(* nothing but the pipeline they read.                                     *)
(***************************************************************************)
\* the raw texts that requests are drawn from, and those of them that the
\* records of a training run are drawn from
Corpus == {<<"a">>, <<"b">>, <<" ", "a", "\t", "\n", "b">>}
TrainingTexts == {<<"a">>, <<" ", "a", "\t", "\n", "b">>}

\* the decision thresholds callers pass (percent); 50 is the default
Thresholds == {0, 50, 51}

\* the terms of a text: its maximal runs of non-whitespace characters
RECURSIVE split_terms(_, _)
split_terms(s, cur) ==
    LET done == IF cur = <<>> THEN {} ELSE {cur}
    IN  IF s = <<>> THEN done
        ELSE IF IsSpace(Head(s)) THEN done \cup split_terms(Tail(s), <<>>)
        ELSE split_terms(Tail(s), Append(cur, Head(s)))

terms(s) == split_terms(s, <<>>)

\* the sum of f over a finite set
RECURSIVE sum_over(_, _)
sum_over(S, f) ==
    IF S = {} THEN 0
    ELSE LET x == CHOOSE y \in S : TRUE IN f[x] + sum_over(S \ {x}, f)

\* build_pipeline(): an unfitted pipeline
build_pipeline == [fitted |-> FALSE, vocabulary |-> {}, coef |-> <<>>]

\* pipeline.fit(X, y): the vocabulary is the terms of X, and a term's
\* coefficient is the number of fake texts of X that hold it less the number
\* of real ones.  Fitting raises ValueError when X has no term (empty
\* vocabulary) or y has fewer than two classes.
fit(X, y) ==
    LET vocabulary == UNION {terms(X[i]) : i \in 1..Len(X)}
        weight(w) ==
            Cardinality({i \in 1..Len(X) : w \in terms(X[i]) /\ y[i] = 1})
            - Cardinality({i \in 1..Len(X) : w \in terms(X[i]) /\ y[i] = 0})
    IN  IF vocabulary = {} \/ Cardinality({y[i] : i \in 1..Len(y)}) < 2
        THEN build_pipeline
        ELSE [fitted |-> TRUE,
              vocabulary |-> vocabulary,
              coef |-> [w \in vocabulary |-> weight(w)]]

\* the classifier's decision value of one processed text
decision(p, t) == sum_over(terms(t) \cap p.vocabulary, p.coef)

\* the probability of fake of one processed text, in percent: 50 at decision
\* value 0, rising with it, within 0..100
proba_fake(p, t) ==
    LET raw == 50 + 25 * decision(p, t)
    IN  IF raw < 0 THEN 0 ELSE IF raw > 100 THEN 100 ELSE raw

\* pipeline.predict(X): class 1 where the decision value is positive
predict(p, X) == [i \in 1..Len(X) |-> IF decision(p, X[i]) > 0 THEN 1 ELSE 0]

\* pipeline.predict_proba(processed)[:, 1]: scikit-learn validates that the
\* input holds at least one sample and raises ValueError when it holds none
sk_predict_proba(p, processed) ==
    IF Len(processed) = 0
    THEN [status |-> "ValueError", values |-> <<>>]
    ELSE [status |-> "ok",
          values |-> [i \in 1..Len(processed) |-> proba_fake(p, processed[i])]]

\* a faulty variant of train_model: the pipeline is fitted on the training and the
\* validation texts together
train_model_leaky(X_train, y_train, X_val, y_val) ==
    LET X_train_p == preprocess_texts(X_train)
        X_val_p == preprocess_texts(X_val)
        p == fit(X_train_p \o X_val_p, y_train \o y_val)
        y_pred == predict(p, X_val_p)
    IN  IF ~p.fitted
        THEN [status |-> "ValueError", pipeline |-> p, metrics |-> <<>>]
        ELSE [status |-> "ok", pipeline |-> p,
              metrics |-> [correct |-> Cardinality({i \in 1..Len(y_val) : y_pred[i] = y_val[i]}),
                           support |-> Len(y_val)]]

\* train_model(X_train, y_train, X_val, y_val): fit on the processed
\* training texts, then score the processed validation texts; the metrics
\* are the number of correct validation predictions and the support
train_model(X_train, y_train, X_val, y_val) ==
    LET X_train_p == preprocess_texts(X_train)
        X_val_p == preprocess_texts(X_val)
        p == fit(X_train_p, y_train)
        y_pred == predict(p, X_val_p)
    IN  IF ~p.fitted
        THEN [status |-> "ValueError", pipeline |-> p, metrics |-> <<>>]
        ELSE [status |-> "ok", pipeline |-> p,
              metrics |-> [correct |-> Cardinality({i \in 1..Len(y_val) : y_pred[i] = y_val[i]}),
                           support |-> Len(y_val)]]

\* predict_proba(pipeline, texts)
predict_proba(p, texts) ==
    LET processed == preprocess_texts(texts)
    IN  sk_predict_proba(p, processed)

\* a faulty variant of predict_label: p > threshold for p >= threshold
predict_label_strict(p, texts, threshold) ==
    LET probs == predict_proba(p, texts)
    IN  IF probs.status # "ok" THEN probs
        ELSE [status |-> "ok",
              values |-> [i \in 1..Len(probs.values) |->
                              IF probs.values[i] > threshold THEN 1 ELSE 0]]

\* predict_label(pipeline, texts, threshold)
predict_label(p, texts, threshold) ==
    LET probs == predict_proba(p, texts)
    IN  IF probs.status # "ok" THEN probs
        ELSE [status |-> "ok",
              values |-> [i \in 1..Len(probs.values) |->
                              IF probs.values[i] >= threshold THEN 1 ELSE 0]]

\* the labelled records and the batches of request texts
Records == [text : TrainingTexts, label : {0, 1}]
Partitions(n) == [1..n -> Records]
Batches(n) == UNION {[1..k -> Corpus] : k \in 0..n}

texts_of(records) == [i \in 1..Len(records) |-> records[i].text]
labels_of(records) == [i \in 1..Len(records) |-> records[i].label]

NoCall == [fn |-> "none", texts |-> <<>>, threshold |-> 50]

InitInfer ==
    /\ train \in Partitions(TrainSize)
    /\ val \in Partitions(ValSize)
    /\ pipeline = build_pipeline
    /\ metrics = <<>>
    /\ call = NoCall
    /\ result = <<>>
    /\ ipc = "start"
    /\ NormalizerIdle
    /\ LoaderIdle
    /\ StoreIdle
    /\ SplitterIdle
    /\ ServiceIdle
    /\ TrainIdle
    /\ FrontEndsIdle

\* a training run calls train_model on the two partitions
Train ==
    /\ ipc = "start"
    /\ LET r == train_model(texts_of(train), labels_of(train),
                            texts_of(val), labels_of(val))
       IN  /\ pipeline' = r.pipeline
           /\ metrics' = r.metrics
           /\ ipc' = IF r.status = "ok" THEN "trained" ELSE "failed"
    /\ UNCHANGED <<train, val, call, result, nvars, lvars, svars, pvars, wvars, xvars>>

\* a caller asks the fitted pipeline for the probabilities of a batch
PredictProba ==
    /\ ipc = "trained"
    /\ call = NoCall
    /\ \E texts \in Batches(MaxBatch) :
           /\ call' = [fn |-> "predict_proba", texts |-> texts, threshold |-> 50]
           /\ result' = predict_proba(pipeline, texts)
    /\ UNCHANGED <<train, val, pipeline, metrics, ipc, nvars, lvars, svars, pvars, wvars, xvars>>

\* a caller asks the fitted pipeline for the labels of a batch
PredictLabel ==
    /\ ipc = "trained"
    /\ call = NoCall
    /\ \E texts \in Batches(MaxBatch), threshold \in Thresholds :
           /\ call' = [fn |-> "predict_label", texts |-> texts, threshold |-> threshold]
           /\ result' = predict_label(pipeline, texts, threshold)
    /\ UNCHANGED <<train, val, pipeline, metrics, ipc, nvars, lvars, svars, pvars, wvars, xvars>>

\* the caller takes the result; the pipeline is ready for the next call
Return ==
    /\ ipc = "trained"
    /\ call # NoCall
    /\ call' = NoCall
    /\ result' = <<>>
    /\ UNCHANGED <<train, val, pipeline, metrics, ipc, nvars, lvars, svars, pvars, wvars, xvars>>

NextInfer == Train \/ PredictProba \/ PredictLabel \/ Return

SpecInfer == InitInfer /\ [][NextInfer]_vars

(***************************************************************************)
(* Claims about the pipeline and the inference facade                      *)
(***************************************************************************)
\* the probability of fake (percent) of text i of the latest call
ProbOfText(i) == proba_fake(pipeline, normalize_whitespace(call.texts[i]))

\* C1: predict_label returns one label per text, 1 exactly when the text's
\* probability of fake is greater than or equal to the threshold, else 0.
C1_LabelIffAtLeastThreshold ==
    (ipc = "trained" /\ call.fn = "predict_label" /\ result.status = "ok") =>
        /\ Len(result.values) = Len(call.texts)
        /\ \A i \in 1..Len(call.texts) :
               /\ result.values[i] \in {0, 1}
               /\ result.values[i] = 1 <=> ProbOfText(i) >= call.threshold

\* C1 witness: at threshold 50 a text of probability exactly 50 was
\* labelled 1, next to a text of lower probability labelled 0.
C1_Witness ==
    /\ ipc = "trained"
    /\ call.fn = "predict_label"
    /\ call.threshold = 50
    /\ Len(call.texts) = 2
    /\ ProbOfText(1) = 50
    /\ ProbOfText(2) < 50
    /\ result.status = "ok"
    /\ result.values = <<1, 0>>

\* C2: on an empty sequence of texts predict_proba and predict_label return
\* an empty sequence and do not end in an error.
C2_EmptyBatchReturnsEmpty ==
    (ipc = "trained" /\ call.fn # "none" /\ call.texts = <<>>) =>
        result.status = "ok" /\ result.values = <<>>

\* the terms of the processed training texts
TrainTerms == UNION {terms(normalize_whitespace(train[i].text)) : i \in 1..Len(train)}

\* what a call gives when it is the only call made on the trained pipeline
ResultAlone(c) ==
    LET p == train_model(texts_of(train), labels_of(train),
                         texts_of(val), labels_of(val)).pipeline
    IN  IF c.fn = "predict_proba"
        THEN predict_proba(p, c.texts)
        ELSE predict_label(p, c.texts, c.threshold)

DEFAULT_MODEL_DIR == <<"models">>
ARTIFACT == "model.joblib"
SIDECAR == "metrics.json"

\* model_dir / "model.joblib"
model_path(model_dir) == Append(model_dir, ARTIFACT)

\* a block of a file no writer has written yet (a gap below a later block)
Hole == [part |-> "hole", fitted |-> FALSE, vocabulary |-> <<>>, coef |-> <<>>]

\* the column of each term of a fitted vocabulary
column_of(vocabulary) ==
    CHOOSE f \in [vocabulary -> 1..Cardinality(vocabulary)] :
        \A v, w \in vocabulary : v # w => f[v] # f[w]

\* a faulty variant of pickle: the classifier's coefficients are not stored
pickle_without_coef(p) ==
    LET column == column_of(p.vocabulary)
    IN  << [part |-> "tfidf", fitted |-> p.fitted, vocabulary |-> column,
            coef |-> <<>>],
           [part |-> "clf", fitted |-> p.fitted, vocabulary |-> <<>>,
            coef |-> [k \in 1..Cardinality(p.vocabulary) |-> 0]] >>

\* the pickled pipeline, as the blocks joblib.dump writes: the vectorizer
\* with its vocabulary (term to column), then the classifier with its
\* coefficient array (one weight per column)
pickle(p) ==
    LET column == column_of(p.vocabulary)
    IN  << [part |-> "tfidf", fitted |-> p.fitted, vocabulary |-> column,
            coef |-> <<>>],
           [part |-> "clf", fitted |-> p.fitted, vocabulary |-> <<>>,
            coef |-> [k \in 1..Cardinality(p.vocabulary) |->
                          p.coef[CHOOSE w \in p.vocabulary : column[w] = k]]] >>

NumBlocks == Len(pickle(build_pipeline))

\* joblib.load of a file's content: the pipeline the blocks hold.  Content
\* that is not a vectorizer block followed by a classifier block of the same
\* width does not unpickle.
joblib_load(content) ==
    IF /\ Len(content) = NumBlocks
       /\ content[1].part = "tfidf"
       /\ content[2].part = "clf"
       /\ Len(content[2].coef) = Cardinality(DOMAIN content[1].vocabulary)
    THEN [status |-> "ok",
          value |-> << [fitted |-> content[1].fitted,
                        vocabulary |-> DOMAIN content[1].vocabulary,
                        coef |-> [w \in DOMAIN content[1].vocabulary |->
                                      content[2].coef[content[1].vocabulary[w]]]] >>]
    ELSE [status |-> "UnpicklingError", value |-> <<>>]

\* model_path.exists()
exists(d, name) == d.exists /\ name \in DOMAIN d.files

\* a faulty variant of mkdir: the directory is not created
mkdir_skipped(d) == d

\* model_dir.mkdir(parents=True, exist_ok=True)
mkdir(d) == [d EXCEPT !.exists = TRUE]

\* open(model_path, "wb"): the file is created or emptied
open_wb(d, name) ==
    [d EXCEPT !.files = [n \in DOMAIN d.files \cup {name} |->
                             IF n = name THEN <<>> ELSE d.files[n]]]

\* a write of one block at block offset pos of a file
write_at(content, pos, block) ==
    [k \in 1..(IF Len(content) > pos THEN Len(content) ELSE pos) |->
        IF k = pos THEN block
        ELSE IF k <= Len(content) THEN content[k] ELSE Hole]

\* a faulty variant of the start of load_model: a missing artifact gives an
\* unfitted pipeline
load_model_unfitted(d) ==
    IF ~exists(d, ARTIFACT)
    THEN [pc |-> "done", status |-> "ok", value |-> <<build_pipeline>>]
    ELSE [pc |-> "checked", status |-> "pending", value |-> <<>>]

\* the start of load_model: FileNotFoundError (the model-not-found error)
\* when the artifact is not there
load_model(d) ==
    IF ~exists(d, ARTIFACT)
    THEN [pc |-> "done", status |-> "ModelNotFoundError", value |-> <<>>]
    ELSE [pc |-> "checked", status |-> "pending", value |-> <<>>]

\* the save_model calls of a run, and the fitted pipelines they save
Savers == {"s1", "s2"}

SampleFits ==
    { [X |-> << <<"a">>, <<"b">> >>, y |-> <<1, 0>>],
      [X |-> << <<"a">>, <<"b">> >>, y |-> <<0, 1>>],
      [X |-> << <<"a">>, <<"a">> >>, y |-> <<1, 0>>] }

FittedPipelines == {train_model(s.X, s.y, <<>>, <<>>).pipeline : s \in SampleFits}

\* a model directory before the run: absent, empty, holding only another
\* file, or holding an artifact saved earlier
NoFiles == [n \in {} |-> <<>>]

DisksBefore ==
    {[exists |-> FALSE, files |-> NoFiles], [exists |-> TRUE, files |-> NoFiles],
     [exists |-> TRUE, files |-> [n \in {SIDECAR} |-> <<Hole>>]]}
    \cup {[exists |-> TRUE, files |-> [n \in {ARTIFACT} |-> pickle(p)]] :
              p \in FittedPipelines}

NoSave == [pc |-> "off", pipeline |-> build_pipeline, pos |-> 0, returned |-> <<>>]

NoLoad == [since |-> "none", ret |-> [pc |-> "idle", status |-> "pending", value |-> <<>>]]

InitStore ==
    /\ disk0 \in DisksBefore
    /\ disk = disk0
    /\ \E p1 \in FittedPipelines, off2 \in BOOLEAN, p2 \in FittedPipelines :
           saver = [s \in Savers |->
                       IF s = "s1" THEN [NoSave EXCEPT !.pc = "start", !.pipeline = p1]
                       ELSE IF off2 THEN NoSave
                       ELSE [NoSave EXCEPT !.pc = "start", !.pipeline = p2]]
    /\ last_done = "none"
    /\ got = NoLoad
    /\ NormalizerIdle
    /\ LoaderIdle
    /\ InferIdle
    /\ SplitterIdle
    /\ ServiceIdle
    /\ TrainIdle
    /\ FrontEndsIdle

\* save_model, line 51: the directory is made
SaveMkdir(s) ==
    /\ saver[s].pc = "start"
    /\ disk' = mkdir(disk)
    /\ saver' = [saver EXCEPT ![s].pc = "mkdir"]
    /\ UNCHANGED <<disk0, last_done, got, nvars, lvars, ivars, pvars, wvars, xvars>>

\* save_model, line 53, joblib.dump opens the artifact for writing; the
\* open fails when the directory is not there
SaveOpen(s) ==
    /\ saver[s].pc = "mkdir"
    /\ IF disk.exists
       THEN /\ disk' = open_wb(disk, ARTIFACT)
            /\ saver' = [saver EXCEPT ![s].pc = "open", ![s].pos = 1]
       ELSE /\ disk' = disk
            /\ saver' = [saver EXCEPT ![s].pc = "failed"]
    /\ UNCHANGED <<disk0, last_done, got, nvars, lvars, ivars, pvars, wvars, xvars>>

\* save_model, line 53, joblib.dump writes its next block at its offset
SaveWrite(s) ==
    /\ saver[s].pc = "open"
    /\ saver[s].pos <= NumBlocks
    /\ disk' = [disk EXCEPT !.files[ARTIFACT] =
                   write_at(@, saver[s].pos, pickle(saver[s].pipeline)[saver[s].pos])]
    /\ saver' = [saver EXCEPT ![s].pos = @ + 1]
    /\ UNCHANGED <<disk0, last_done, got, nvars, lvars, ivars, pvars, wvars, xvars>>

\* save_model, lines 53-54: the file is closed and the path returned
SaveReturn(s) ==
    /\ saver[s].pc = "open"
    /\ saver[s].pos > NumBlocks
    /\ saver' = [saver EXCEPT ![s].pc = "done",
                              ![s].returned = model_path(DEFAULT_MODEL_DIR)]
    /\ last_done' = s
    /\ UNCHANGED <<disk, disk0, got, nvars, lvars, ivars, pvars, wvars, xvars>>

\* load_model, lines 58-60: the artifact is looked for
LoadCheck ==
    /\ got.ret.pc = "idle"
    /\ got' = [since |-> last_done, ret |-> load_model(disk)]
    /\ UNCHANGED <<disk, disk0, saver, last_done, nvars, lvars, ivars, pvars, wvars, xvars>>

\* load_model, line 61: the artifact is read
LoadRead ==
    /\ got.ret.pc = "checked"
    /\ LET r == joblib_load(disk.files[ARTIFACT])
       IN  got' = [got EXCEPT !.ret = [pc |-> "done", status |-> r.status,
                                        value |-> r.value]]
    /\ UNCHANGED <<disk, disk0, saver, last_done, nvars, lvars, ivars, pvars, wvars, xvars>>

NextStore ==
    \/ \E s \in Savers : SaveMkdir(s) \/ SaveOpen(s) \/ SaveWrite(s) \/ SaveReturn(s)
    \/ LoadCheck
    \/ LoadRead

SpecStore == InitStore /\ [][NextStore]_vars

(***************************************************************************)
(* Claims about the model store                                            *)
(***************************************************************************)
\* the save_model calls made in this run
Active == {s \in Savers : saver[s].pc # "off"}

\* a load that began after save_model call s had returned, with no other
\* save in the run, and has finished
LoadedBack(s) ==
    /\ Active = {s}
    /\ got.since = s
    /\ got.ret.pc = "done"

\* C11: saving a fitted pipeline and loading it back from the same
\* directory yields a pipeline that returns the same probabilities and the
\* same labels as the original, for every input batch and threshold.
C11_RoundTripSamePredictions ==
    \A s \in Savers :
        LoadedBack(s) =>
            /\ got.ret.status = "ok"
            /\ \A texts \in Batches(MaxBatch) :
                   /\ predict_proba(got.ret.value[1], texts)
                          = predict_proba(saver[s].pipeline, texts)
                   /\ \A threshold \in Thresholds :
                          predict_label(got.ret.value[1], texts, threshold)
                              = predict_label(saver[s].pipeline, texts, threshold)

\* C11 witness: a pipeline that scores the text "a" above 50 was saved over
\* an older artifact and loaded back.
C11_Witness ==
    /\ LoadedBack("s1")
    /\ exists(disk0, ARTIFACT)
    /\ disk0.files[ARTIFACT] # pickle(saver["s1"].pipeline)
    /\ got.ret.status = "ok"
    /\ proba_fake(saver["s1"].pipeline, <<"a">>) > 50

\* C12: load_model on a directory with no artifact at the expected path
\* fails with the model-not-found error and returns no pipeline.  (No step
\* removes a file, so an artifact absent now was absent when load_model
\* looked for it.)
C12_MissingArtifactNotFound ==
    (got.ret.pc = "done" /\ ~exists(disk, ARTIFACT)) =>
        /\ got.ret.status = "ModelNotFoundError"
        /\ got.ret.value = <<>>

\* C12 witness: load_model has failed on a directory that exists and holds
\* another file but no artifact.
C12_Witness ==
    /\ got.ret.pc = "done"
    /\ disk.exists
    /\ DOMAIN disk.files = {SIDECAR}
    /\ got.ret.status = "ModelNotFoundError"

\* C13: save_model creates the directory when it is absent, writes the
\* pipeline to the one file model.joblib in it and returns that file's
\* path; a load_model that begins after the save has returned succeeds.
C13_SaveCreatesArtifact ==
    \A s \in Savers :
        /\ saver[s].pc \in {"mkdir", "open", "done"} => disk.exists
        /\ saver[s].pc = "done" =>
               /\ saver[s].returned = <<"models", "model.joblib">>
               /\ exists(disk, "model.joblib")
               /\ DOMAIN disk.files = DOMAIN disk0.files \cup {"model.joblib"}
               /\ \A n \in DOMAIN disk0.files \ {"model.joblib"} :
                      disk.files[n] = disk0.files[n]
               /\ Active = {s} => disk.files["model.joblib"] = pickle(saver[s].pipeline)
        /\ LoadedBack(s) => got.ret.status = "ok" /\ Len(got.ret.value) = 1

\* C13 witness: the directory was absent, one save has returned and a load
\* begun after it has succeeded.
C13_Witness ==
    /\ ~disk0.exists
    /\ LoadedBack("s1")
    /\ saver["s1"].returned = <<"models", "model.joblib">>
    /\ got.ret.status = "ok"

\* every save_model call of the run has returned, and there were several
AllSaved == Active = Savers /\ \A s \in Savers : saver[s].pc = "done"

\* C14: when several saves target the directory concurrently, once all
\* have completed the artifact is exactly the pipeline of the save that
\* finished last.
C14_LastWriterWins ==
    AllSaved => disk.files[ARTIFACT] = pickle(saver[last_done].pipeline)

\* the complete pipelines a load of this run may find: the one stored before
\* the run and those the save_model calls of the run store
StoredWhole ==
    (IF exists(disk0, ARTIFACT) THEN {joblib_load(disk0.files[ARTIFACT]).value} ELSE {})
    \cup {<<saver[s].pipeline>> : s \in Active}

\* C26: a load_model that overlaps a save_model to the same directory
\* returns the complete pipeline stored before or the complete new one, or
\* reports model-not-found; it never reads a partially written artifact.
C26_LoadNeverPartial ==
    got.ret.pc = "done" =>
        \/ got.ret.status = "ModelNotFoundError"
        \/ /\ got.ret.status = "ok"
           /\ got.ret.value \in StoredWhole

(***************************************************************************)
(* Splitter -- src/fake_news/data.py, train_val_split                      *)
(*                                                                         *)
(* train_val_split hands the text and label columns to scikit-learn's      *)
(* train_test_split with stratify=y.  The validation fraction is a float,  *)
(* held here in percent.  The random generator is a small congruential     *)
(* generator whose whole stream is fixed by its seed; a permutation drawn  *)
(* from it is a rotation.                                                  *)
(***************************************************************************)
\* the states of the generator, and its step
RngStates == 16
next_state(g) == (5 * g + 3) % RngStates

\* the state of generator g after k steps
RECURSIVE draw(_, _)
draw(g, k) == IF k = 0 THEN g ELSE draw(next_state(g), k - 1)

\* a faulty variant of check_random_state: the process-wide generator is
\* used in place of one seeded with the argument
check_random_state_global(seed, global) == global

\* check_random_state(random_state) for an integer seed: a new generator
\* seeded with it, whatever the state of the process-wide generator
check_random_state(seed, global) == seed % RngStates

\* the elements of a finite set of integers in ascending order
RECURSIVE sorted(_)
sorted(S) ==
    IF S = {} THEN <<>>
    ELSE LET m == CHOOSE x \in S : \A y \in S : x <= y
         IN  <<m>> \o sorted(S \ {m})

\* rng.permutation(seq) at generator state d
permutation(seq, d) ==
    [k \in 1..Len(seq) |-> seq[((k - 1 + d) % Len(seq)) + 1]]

\* the largest remainders first get the draws the floors leave over; ties
\* are broken by rng.choice
RECURSIVE add_remainders(_, _, _, _, _, _)
add_remainders(floored, need_to_add, values, remainder, g, j) ==
    IF need_to_add = 0 \/ values = <<>> THEN floored
    ELSE LET value == values[Len(values)]
             inds == sorted({c \in DOMAIN remainder : remainder[c] = value})
             add_now == IF Len(inds) < need_to_add THEN Len(inds) ELSE need_to_add
             picked == permutation(inds, draw(g, j))
             chosen == {picked[k] : k \in 1..add_now}
         IN  add_remainders([c \in DOMAIN floored |->
                                 floored[c] + (IF c \in chosen THEN 1 ELSE 0)],
                            need_to_add - add_now,
                            SubSeq(values, 1, Len(values) - 1),
                            remainder, g, j + 1)

\* a faulty variant of _approximate_mode: the draws are taken from the
\* classes in ascending order, each class used up before the next
approximate_mode_in_order(class_counts, n_draws, g) ==
    [c \in DOMAIN class_counts |->
        LET before == sum_over({b \in DOMAIN class_counts : b < c}, class_counts)
            left == IF n_draws > before THEN n_draws - before ELSE 0
        IN  IF left < class_counts[c] THEN left ELSE class_counts[c]]

\* _approximate_mode(class_counts, n_draws, rng): n_draws shared among the
\* classes in proportion to their counts
approximate_mode(class_counts, n_draws, g) ==
    LET total == sum_over(DOMAIN class_counts, class_counts)
        floored == [c \in DOMAIN class_counts |-> (class_counts[c] * n_draws) \div total]
        remainder == [c \in DOMAIN class_counts |-> (class_counts[c] * n_draws) % total]
        need_to_add == n_draws - sum_over(DOMAIN floored, floored)
        values == sorted({remainder[c] : c \in DOMAIN remainder})
    IN  add_remainders(floored, need_to_add, values, remainder, g, 1)

\* a faulty variant of validate_test_size: a fraction out of range is
\* replaced by the default 0.2
validate_test_size_default(test_size) ==
    IF test_size <= 0 \/ test_size >= 100
    THEN [status |-> "ok", test_size |-> 20]
    ELSE [status |-> "ok", test_size |-> test_size]

\* _validate_shuffle_split, the range check of a float test_size
validate_test_size(test_size) ==
    IF test_size <= 0 \/ test_size >= 100
    THEN [status |-> "ConfigError", test_size |-> test_size]
    ELSE [status |-> "ok", test_size |-> test_size]

\* ceil(test_size * n_samples), test_size in percent
n_test_of(test_size, n_samples) == (test_size * n_samples + 99) \div 100

\* a faulty variant of stratify_check: classes of any size are accepted
stratify_check_lenient(class_counts, n_train, n_test) == "ok"

\* StratifiedShuffleSplit's checks of the class counts
stratify_check(class_counts, n_train, n_test) ==
    IF \E c \in DOMAIN class_counts : class_counts[c] < 2
    THEN "DataInsufficientError"
    ELSE IF n_train < Cardinality(DOMAIN class_counts) THEN "DataInsufficientError"
    ELSE IF n_test < Cardinality(DOMAIN class_counts) THEN "DataInsufficientError"
    ELSE "ok"

\* a faulty variant of take_test: the last record of the class's share of
\* the test set is left out
take_test_short(perm, n_i, t_i) == SubSeq(perm, n_i + 1, n_i + t_i - 1)

\* the class's share of the test set: the t_i positions after the first n_i
take_test(perm, n_i, t_i) == SubSeq(perm, n_i + 1, n_i + t_i)

\* the concatenation of part[c] over the classes in the given order
RECURSIVE extend(_, _)
extend(classes, part) ==
    IF classes = <<>> THEN <<>>
    ELSE part[Head(classes)] \o extend(Tail(classes), part)

\* StratifiedShuffleSplit(test_size=n_test, train_size=n_train,
\* random_state=g).split(X, y): the positions of the train and test records
StratifiedShuffleSplit(y, n_train, n_test, g) ==
    LET classes == {y[k].value : k \in 1..Len(y)}
        n_classes == Cardinality(classes)
        class_counts == [c \in classes |->
                            Cardinality({k \in 1..Len(y) : y[k].value = c})]
        checked == stratify_check(class_counts, n_train, n_test)
        n_i == approximate_mode(class_counts, n_train, g)
        t_i == approximate_mode([c \in classes |-> class_counts[c] - n_i[c]],
                                n_test, g)
        rank(c) == Cardinality({b \in classes : b <= c})
        perm == [c \in classes |->
                    permutation(sorted({k \in 1..Len(y) : y[k].value = c}),
                                draw(g, n_classes + rank(c)))]
        train_ix == extend(sorted(classes),
                        [c \in classes |-> SubSeq(perm[c], 1, n_i[c])])
        test_ix == extend(sorted(classes),
                       [c \in classes |-> take_test(perm[c], n_i[c], t_i[c])])
    IN  IF checked # "ok"
        THEN [status |-> checked, train |-> <<>>, test |-> <<>>]
        ELSE [status |-> "ok",
              train |-> permutation(train_ix, draw(g, 2 * n_classes + 1)),
              test |-> permutation(test_ix, draw(g, 2 * n_classes + 2))]

\* a failed split: the error, and no partition
NoDataset(error) ==
    [status |-> error, X_train |-> <<>>, X_val |-> <<>>,
     y_train |-> <<>>, y_val |-> <<>>]

\* train_test_split(X, y, test_size=..., stratify=y, random_state=...)
train_test_split(X, y, test_size, seed, global) ==
    LET n_samples == Len(X)
        valid == validate_test_size(test_size)
        n_test == n_test_of(valid.test_size, n_samples)
        n_train == n_samples - n_test
        cv == StratifiedShuffleSplit(y, n_train, n_test,
                                     check_random_state(seed, global))
    IN  IF valid.status # "ok" THEN NoDataset(valid.status)
        ELSE IF n_train = 0 THEN NoDataset("DataInsufficientError")
        ELSE IF cv.status # "ok" THEN NoDataset(cv.status)
        ELSE [status |-> "ok",
              X_train |-> [j \in 1..Len(cv.train) |-> X[cv.train[j]]],
              X_val |-> [j \in 1..Len(cv.test) |-> X[cv.test[j]]],
              y_train |-> [j \in 1..Len(cv.train) |-> y[cv.train[j]]],
              y_val |-> [j \in 1..Len(cv.test) |-> y[cv.test[j]]]]

\* train_val_split(df, text_col, label_col, val_size, random_state): the
\* two columns, each entry with its row's index, are split together
train_val_split(d, test_size, seed, global) ==
    LET X == [k \in 1..Len(d) |-> [index |-> d[k].index, value |-> d[k].text]]
        y == [k \in 1..Len(d) |-> [index |-> d[k].index, value |-> d[k].label]]
    IN  train_test_split(X, y, test_size, seed, global)

\* the datasets split: up to MaxData rows as load_dataset_csv returns them
\* (every second row of the file was dropped), the fractions and the seeds
MaxData == 5
SampleText(k) == IF k % 2 = 1 THEN <<"a">> ELSE <<"b", " ", "a">>
Datasets(n) ==
    UNION {{[k \in 1..m |-> [index |-> 2 * k, text |-> SampleText(k), label |-> l[k]]] :
               l \in [1..m -> {0, 1}]} : m \in 0..n}
ValSizes == {-20, 0, 20, 40, 50, 100, 150}
Seeds == {7, 42}

NotCalled == NoDataset("none")

InitSplit ==
    /\ dataset \in Datasets(MaxData)
    /\ val_size \in ValSizes
    /\ random_state \in Seeds
    /\ np_random = 0
    /\ first = NotCalled
    /\ second = NotCalled
    /\ ppc = "start"
    /\ NormalizerIdle
    /\ LoaderIdle
    /\ InferIdle
    /\ StoreIdle
    /\ ServiceIdle
    /\ TrainIdle
    /\ FrontEndsIdle

\* train_main, lines 33-37: the dataset is split
Split ==
    /\ ppc = "start"
    /\ first' = train_val_split(dataset, val_size, random_state, np_random)
    /\ ppc' = "split"
    /\ UNCHANGED <<dataset, val_size, random_state, np_random, second,
                   nvars, lvars, ivars, svars, wvars, xvars>>

\* other code of the process draws from the process-wide generator
Perturb ==
    /\ ppc = "split"
    /\ np_random' = next_state(np_random)
    /\ np_random' # 0
    /\ UNCHANGED <<dataset, val_size, random_state, first, second, ppc,
                   nvars, lvars, ivars, svars, wvars, xvars>>

\* a second run splits the same dataset with the same fraction and seed
SplitAgain ==
    /\ ppc = "split"
    /\ second' = train_val_split(dataset, val_size, random_state, np_random)
    /\ ppc' = "again"
    /\ UNCHANGED <<dataset, val_size, random_state, np_random, first,
                   nvars, lvars, ivars, svars, wvars, xvars>>

NextSplit == Split \/ Perturb \/ SplitAgain

SpecSplit == InitSplit /\ [][NextSplit]_vars

(***************************************************************************)
(* Claims about the splitter                                               *)
(***************************************************************************)
\* the row indexes of a returned column
indexes(series) == {series[j].index : j \in 1..Len(series)}

\* the row of the dataset with the given index
row_of(ix) == dataset[CHOOSE k \in 1..Len(dataset) : dataset[k].index = ix]

\* the number of records of class c in the dataset, and in a label column
count_in_dataset(c) == Cardinality({k \in 1..Len(dataset) : dataset[k].label = c})
count_in(series, c) == Cardinality({j \in 1..Len(series) : series[j].value = c})

\* C15: the training set and the validation set are disjoint, together hold
\* every record of the dataset exactly once, and each text is still paired
\* with its own label.
C15_DisjointCover ==
    first.status = "ok" =>
        /\ indexes(first.X_train) \cap indexes(first.X_val) = {}
        /\ indexes(first.X_train) \cup indexes(first.X_val) = indexes(dataset)
        /\ Len(first.X_train) + Len(first.X_val) = Len(dataset)
        /\ Len(first.y_train) = Len(first.X_train)
        /\ Len(first.y_val) = Len(first.X_val)
        /\ \A j \in 1..Len(first.X_train) :
               /\ first.y_train[j].index = first.X_train[j].index
               /\ first.X_train[j].value = row_of(first.X_train[j].index).text
               /\ first.y_train[j].value = row_of(first.X_train[j].index).label
        /\ \A j \in 1..Len(first.X_val) :
               /\ first.y_val[j].index = first.X_val[j].index
               /\ first.X_val[j].value = row_of(first.X_val[j].index).text
               /\ first.y_val[j].value = row_of(first.X_val[j].index).label

\* C15 witness: five records, both texts under both labels, were split
\* into three for training and two for validation.
C15_Witness ==
    /\ first.status = "ok"
    /\ Len(dataset) = 5
    /\ dataset[1].label # dataset[3].label
    /\ dataset[2].label # dataset[4].label
    /\ Len(first.X_train) = 3
    /\ Len(first.X_val) = 2

\* C16: two calls with the same dataset, the same fraction and the same
\* seed return the same training and validation sets (the same records in
\* the same order), whatever was drawn from the process-wide generator in
\* between.
C16_SameSeedSameSplit ==
    ppc = "again" =>
        /\ second.status = first.status
        /\ indexes(second.X_train) = indexes(first.X_train)
        /\ indexes(second.X_val) = indexes(first.X_val)
        /\ second = first

\* C16 witness: a second call has returned a partition after the
\* process-wide generator was drawn from.
C16_Witness ==
    /\ ppc = "again"
    /\ np_random # 0
    /\ second.status = "ok"
    /\ Len(second.X_val) = 2

\* C17: the validation set holds the validation fraction of the records,
\* rounded up, and each class's share of it is its share of the dataset up
\* to rounding: the class's count in the validation set differs from
\* (class count * validation size / dataset size) by less than one.
C17_Stratified ==
    first.status = "ok" =>
        LET n == Len(dataset)
            n_val == Len(first.y_val)
        IN  /\ 100 * n_val >= val_size * n
            /\ 100 * (n_val - 1) < val_size * n
            /\ \A c \in {0, 1} :
                   LET d == count_in(first.y_val, c) * n - count_in_dataset(c) * n_val
                   IN  -n < d /\ d < n

\* C17 witness: five records at 3/2 and the fraction 0.4 gave a validation
\* set of two records, one of each class.
C17_Witness ==
    /\ first.status = "ok"
    /\ Len(dataset) = 5
    /\ val_size = 40
    /\ count_in_dataset(0) = 3
    /\ count_in(first.y_val, 0) = 1
    /\ count_in(first.y_val, 1) = 1

\* C18: a validation fraction that is not strictly between 0 and 1 makes
\* train_val_split fail with the configuration error; no partition is
\* produced.
C18_FractionOutOfRange ==
    (ppc # "start" /\ (val_size <= 0 \/ val_size >= 100)) =>
        first = NoDataset("ConfigError")

\* C18 witness: the fraction 1.0 was refused on a dataset that splits at
\* other fractions.
C18_Witness ==
    /\ ppc # "start"
    /\ val_size = 100
    /\ count_in_dataset(0) = 2
    /\ count_in_dataset(1) = 2
    /\ first.status = "ConfigError"

\* a class of the dataset has fewer than 2 members
SmallClass == \E c \in {0, 1} : count_in_dataset(c) = 1

\* C19: when a class of the dataset has fewer than 2 members the split
\* fails and returns no partition, stratified or not; with a fraction in
\* range the failure is the data-insufficient error.
C19_SmallClassFails ==
    (ppc # "start" /\ SmallClass) =>
        /\ first.status \in {"DataInsufficientError", "ConfigError"}
        /\ first = NoDataset(first.status)
        /\ (0 < val_size /\ val_size < 100) => first.status = "DataInsufficientError"

\* C19 witness: a dataset of four records of one class and one of the other
\* was refused at the fraction 0.2.
C19_Witness ==
    /\ ppc # "start"
    /\ Len(dataset) = 5
    /\ count_in_dataset(1) = 1
    /\ val_size = 20
    /\ first.status = "DataInsufficientError"

(***************************************************************************)
(* Prediction service -- src/fake_news/service.py (create_app) and         *)
(* src/fake_news/service_gemini.py (create_enhanced_app), POST /predict    *)
(*                                                                         *)
(* An app is created over a model directory and then answers requests.  A  *)
(* request body holds the texts and, for the threshold, a number (in       *)
(* percent), null, or nothing.                                             *)
(***************************************************************************)
Kinds == {"basic", "enhanced", "gemini_only"}

\* load_model as a whole, for a caller that shares the directory with no
\* save in progress
load_model_now(d) ==
    LET looked == load_model(d)
    IN  IF looked.pc = "done" THEN looked
        ELSE LET r == joblib_load(d.files[ARTIFACT])
             IN  [pc |-> "done", status |-> r.status, value |-> r.value]

\* create_app(model_dir): the model is loaded; FileNotFoundError is raised
\* again and there is no app
create_app(d) ==
    LET loaded_ == load_model_now(d)
    IN  IF loaded_.status = "ok"
        THEN [kind |-> "basic", status |-> "serving", model_loaded |-> TRUE,
              model |-> loaded_.value]
        ELSE [kind |-> "basic", status |-> loaded_.status, model_loaded |-> FALSE,
              model |-> <<>>]

\* create_enhanced_app(model_dir): FileNotFoundError is caught and the app
\* serves without the model
create_enhanced_app(d) ==
    LET loaded_ == load_model_now(d)
    IN  IF loaded_.status = "ok"
        THEN [kind |-> "enhanced", status |-> "serving", model_loaded |-> TRUE,
              model |-> loaded_.value]
        ELSE IF loaded_.status = "ModelNotFoundError"
        THEN [kind |-> "enhanced", status |-> "serving", model_loaded |-> FALSE,
              model |-> <<>>]
        ELSE [kind |-> "enhanced", status |-> loaded_.status, model_loaded |-> FALSE,
              model |-> <<>>]

\* the threshold field of a request body
Omitted == [given |-> "omitted", num |-> 0]
Null == [given |-> "null", num |-> 0]
Supplied(v) == [given |-> "value", num |-> v]
BodyThresholds == {Omitted, Null} \cup {Supplied(v) : v \in Thresholds}

\* a response: the HTTP status and the two arrays of the body
Response(code, labels, probabilities) ==
    [status |-> code, labels |-> labels, probabilities |-> probabilities]

\* the default threshold of both PredictRequest models, 0.5
DefaultThreshold == 50

\* service.PredictRequest: threshold: float | None = 0.5
PredictRequest(body) ==
    [texts |-> body.texts,
     threshold |-> IF body.threshold.given = "omitted"
                   THEN Supplied(DefaultThreshold) ELSE body.threshold]

\* Python's `x or 0.5`: 0.5 when x is None or zero
or_default(x) ==
    IF x.given = "null" \/ x.num = 0 THEN DefaultThreshold ELSE x.num

\* service.py, predict
service_predict(model, body) ==
    LET req == PredictRequest(body)
        probs == predict_proba(model, req.texts)
        labels == predict_label(model, req.texts, or_default(req.threshold))
    IN  IF req.texts = <<>> THEN Response(400, <<>>, <<>>)
        ELSE IF probs.status # "ok" \/ labels.status # "ok"
        THEN Response(500, <<>>, <<>>)
        ELSE Response(200, labels.values, probs.values)

\* service_gemini.py, predict; PredictRequest has threshold: float = 0.5,
\* so a null threshold does not validate (422)
enhanced_predict(a, body) ==
    LET threshold == IF body.threshold.given = "omitted"
                     THEN DefaultThreshold ELSE body.threshold.num
        probs == predict_proba(a.model[1], body.texts)
        labels == predict_label(a.model[1], body.texts, threshold)
    IN  IF body.threshold.given = "null" THEN Response(422, <<>>, <<>>)
        ELSE IF ~a.model_loaded THEN Response(503, <<>>, <<>>)
        ELSE IF body.texts = <<>> THEN Response(400, <<>>, <<>>)
        ELSE IF probs.status # "ok" \/ labels.status # "ok"
        THEN Response(500, <<>>, <<>>)
        ELSE Response(200, labels.values, probs.values)

\* a faulty variant of served_model: the artifact is loaded again at each
\* request
served_model_reloaded(a, d) ==
    LET again == load_model_now(d)
    IN  IF again.status = "ok" THEN again.value ELSE a.model

\* the pipeline a /predict handler scores with: the variable its closure
\* captured when the app was created (d is the model directory)
served_model(a, d) == a.model

NoApp == [kind |-> "none", status |-> "none", model_loaded |-> FALSE, model |-> <<>>]
NoRequest == [texts |-> <<>>, threshold |-> Omitted]
NoResponse == Response(0, <<>>, <<>>)

\* the outcome of a command-line run: the exit status, the error that ended
\* it and the numbers it printed
NoCli == [program |-> "none", data |-> "none", exit |-> 0, error |-> "none",
          printed |-> <<>>]
CliFailed(program, data, error) ==
    [program |-> program, data |-> data, exit |-> 1, error |-> error,
     printed |-> <<>>]

\* scripts/predict_cli.py, main: an uncaught exception ends the run with a
\* traceback and exit status 1; else the probability and the label are printed
predict_cli(d, t, threshold) ==
    LET model == load_model_now(d)
        prob == predict_proba(model.value[1], <<t>>)
    IN  IF model.status # "ok" THEN CliFailed("predict", "none", model.status)
        ELSE IF prob.status # "ok" THEN CliFailed("predict", "none", prob.status)
        ELSE [program |-> "predict", data |-> "none", exit |-> 0, error |-> "none",
              printed |-> <<prob.values[1],
                            IF prob.values[1] >= threshold THEN 1 ELSE 0>>]

\* evaluate.py, evaluate_main: the dataset is loaded, then the model; the
\* report printed is held as the number of right predictions and the
\* number of rows
evaluate_main(d, data) ==
    LET model == load_model_now(d)
        y_prob == predict_proba(model.value[1], texts_of(data.rows))
        y_pred == [i \in 1..Len(y_prob.values) |->
                      IF y_prob.values[i] >= DefaultThreshold THEN 1 ELSE 0]
    IN  IF data.status # "ok" THEN CliFailed("evaluate", data.status, data.status)
        ELSE IF model.status # "ok"
        THEN CliFailed("evaluate", data.status, model.status)
        ELSE IF y_prob.status # "ok"
        THEN CliFailed("evaluate", data.status, y_prob.status)
        ELSE [program |-> "evaluate", data |-> "ok", exit |-> 0, error |-> "none",
              printed |-> <<Cardinality({i \in 1..Len(y_pred) :
                                            y_pred[i] = data.rows[i].label}),
                            Len(y_pred)>>]

\* what load_dataset_csv gives the evaluate run: an error, or the rows
EvalData ==
    {[status |-> "SchemaError", rows |-> <<>>]}
    \cup {[status |-> "ok", rows |-> d] : d \in Datasets(MaxRows)}

InitService ==
    /\ disk0 \in DisksBefore
    /\ disk = disk0
    /\ saver = [s \in Savers |-> NoSave]
    /\ last_done = "none"
    /\ got = NoLoad
    /\ app = NoApp
    /\ request = NoRequest
    /\ response = NoResponse
    /\ NormalizerIdle
    /\ LoaderIdle
    /\ cli = NoCli
    /\ exchange = <<>>
    /\ InferIdle
    /\ SplitterIdle
    /\ TrainIdle

\* the basic app is created
CreateApp ==
    /\ app = NoApp
    /\ app' = create_app(disk)
    /\ UNCHANGED <<request, response, nvars, lvars, ivars, svars, pvars, xvars>>

\* the enhanced app is created
CreateEnhancedApp ==
    /\ app = NoApp
    /\ app' = create_enhanced_app(disk)
    /\ UNCHANGED <<request, response, nvars, lvars, ivars, svars, pvars, xvars>>

\* a client posts to /predict and is answered
PostPredict ==
    /\ app.status = "serving"
    /\ response = NoResponse
    /\ cli = NoCli
    /\ \E texts \in Batches(MaxBatch), threshold \in BodyThresholds :
           LET body == [texts |-> texts, threshold |-> threshold]
           IN  /\ request' = body
               /\ response' = IF app.kind = "basic"
                              THEN service_predict(served_model(app, disk)[1], body)
                              ELSE enhanced_predict(
                                       [app EXCEPT !.model = served_model(app, disk)],
                                       body)
    /\ UNCHANGED <<app, nvars, lvars, ivars, svars, pvars, xvars>>

\* the client takes the response; the app waits for the next request
TakeResponse ==
    /\ response # NoResponse
    /\ request' = NoRequest
    /\ response' = NoResponse
    /\ UNCHANGED <<app, nvars, lvars, ivars, svars, pvars, xvars>>

\* the predict command line is run on the model directory
RunPredictCli ==
    /\ cli = NoCli
    /\ response = NoResponse
    /\ \E t \in Corpus, threshold \in Thresholds :
           cli' = predict_cli(disk, t, threshold)
    /\ UNCHANGED <<app, request, response, run, exchange,
                   nvars, lvars, ivars, svars, pvars>>

\* the evaluate command line is run on the model directory
RunEvaluateCli ==
    /\ cli = NoCli
    /\ response = NoResponse
    /\ \E data \in EvalData : cli' = evaluate_main(disk, data)
    /\ UNCHANGED <<app, request, response, run, exchange,
                   nvars, lvars, ivars, svars, pvars>>

\* the command-line run has ended; another may be started
CliExit ==
    /\ cli # NoCli
    /\ cli' = NoCli
    /\ UNCHANGED <<app, request, response, run, exchange,
                   nvars, lvars, ivars, svars, pvars>>

\* the process that trains anew while the service runs
Retrainer == "s1"

\* a training run on the directory of the running service reaches its
\* save_model call (train.py, line 49) with a newly fitted pipeline
Retrain ==
    /\ app.status = "serving"
    /\ saver[Retrainer].pc = "off"
    /\ \E p \in FittedPipelines :
           saver' = [saver EXCEPT ![Retrainer] =
                        [NoSave EXCEPT !.pc = "start", !.pipeline = p]]
    /\ UNCHANGED <<disk, disk0, last_done, got, nvars, lvars, ivars, pvars,
                   wvars, xvars>>

NextService ==
    \/ CreateApp
    \/ CreateEnhancedApp
    \/ PostPredict
    \/ TakeResponse
    \/ RunPredictCli
    \/ RunEvaluateCli
    \/ CliExit
    \/ Retrain
    \/ SaveMkdir(Retrainer)
    \/ SaveOpen(Retrainer)
    \/ SaveWrite(Retrainer)
    \/ SaveReturn(Retrainer)

SpecService == InitService /\ [][NextService]_vars

(***************************************************************************)
(* Claims about the prediction service                                     *)
(***************************************************************************)
\* the threshold the request asks for: the supplied value, 0.5 when omitted
RequestedThreshold ==
    IF request.threshold.given = "omitted" THEN 50 ELSE request.threshold.num

\* C20: for every request with a non-empty batch, whose threshold is a
\* number or is omitted, /predict answers with labels and probabilities of
\* one entry per text in input order, labels[i] = 1 exactly when
\* probabilities[i] >= the request's threshold (0 included), 0.5 being used
\* only when the threshold is omitted.
C20_ServiceLabelsAtThreshold ==
    (/\ response # NoResponse
     /\ app.model_loaded
     /\ request.texts # <<>>
     /\ request.threshold.given # "null") =>
        /\ response.status = 200
        /\ Len(response.labels) = Len(request.texts)
        /\ Len(response.probabilities) = Len(request.texts)
        /\ \A i \in 1..Len(request.texts) :
               /\ response.probabilities[i]
                      = proba_fake(app.model[1], normalize_whitespace(request.texts[i]))
               /\ response.labels[i] \in {0, 1}
               /\ response.labels[i] = 1 <=>
                      response.probabilities[i] >= RequestedThreshold

\* C22: a missing model artifact is fatal on every startup path that needs
\* the model.  With no artifact in the directory, the predict command line,
\* the evaluate command line (its dataset loaded) and the creation of each
\* app that serves the trained model fail with the model-not-found error:
\* nothing is printed, no app serves and no request is answered.  (No step
\* removes a file, so an artifact absent now was absent at the start-up.)
C22_MissingArtifactFatal ==
    ~exists(disk, ARTIFACT) =>
        /\ app # NoApp =>
               /\ app.status = "ModelNotFoundError"
               /\ response = NoResponse
        /\ (cli # NoCli /\ cli.data \in {"none", "ok"}) =>
               /\ cli.exit # 0
               /\ cli.error = "ModelNotFoundError"
               /\ cli.printed = <<>>

\* what the handler of the app answers the request from pipeline m
answer_with(m) ==
    IF app.kind = "basic" THEN service_predict(m[1], request)
    ELSE enhanced_predict([app EXCEPT !.model = m], request)

\* C27: the service loads the pipeline exactly once, when the app is
\* created, and answers every later /predict request with that pipeline: a
\* training run that overwrites the artifact while the service runs changes
\* no response.  (disk0 is the directory as the app found it: a retraining
\* starts only once the app serves.)
C27_ServesPipelineOfCreation ==
    (app.status = "serving" /\ app.kind \in {"basic", "enhanced"}) =>
        LET at_creation == load_model_now(disk0)
        IN  /\ app.model_loaded <=> at_creation.status = "ok"
            /\ app.model = at_creation.value
            /\ response # NoResponse => response = answer_with(at_creation.value)

\* the artifact has been overwritten by a pipeline that would score the
\* texts of the request otherwise, and the request is answered
C27_Witness ==
    /\ app.status = "serving"
    /\ app.model_loaded
    /\ saver[Retrainer].pc = "done"
    /\ disk.files[ARTIFACT] # disk0.files[ARTIFACT]
    /\ response.status = 200
    /\ response.probabilities
           # predict_proba(load_model_now(disk).value[1], request.texts).values

(***************************************************************************)
(* Gemini endpoints -- src/fake_news/service_gemini.py (/predict/gemini,   *)
(* /predict/compare) and src/fake_news/service_gemini_only.py (/predict)   *)
(*                                                                         *)
(* The Gemini model is outside the program: what predict_single_gemini     *)
(* gives for a text is an input, one answer per text of the request.       *)
(***************************************************************************)
\* create_gemini_only_app(): no trained model is loaded
create_gemini_only_app ==
    [kind |-> "gemini_only", status |-> "serving", model_loaded |-> FALSE,
     model |-> <<>>]

\* the gemini_api_key field of a request (None, empty or a key) and the
\* GEMINI_API_KEY variable of the environment (unset or a key)
NoKey == "None"
RequestKeys == {NoKey, "", "key"}
EnvKeys == {NoKey, "envkey"}

\* Python's `req.gemini_api_key or os.getenv("GEMINI_API_KEY")`
key_or_env(key, env) == IF key \in {NoKey, ""} THEN env ELSE key

\* what predict_single_gemini does for one text: it raises, or returns a
\* verdict with a confidence (percent)
Raises == [raised |-> TRUE, is_fake |-> FALSE, confidence |-> 0]
GeminiAnswers ==
    {Raises, [raised |-> FALSE, is_fake |-> TRUE, confidence |-> 90],
     [raised |-> FALSE, is_fake |-> FALSE, confidence |-> 80]}

\* a response of a Gemini endpoint: the HTTP status, the results and, for
\* /predict/compare, the summary
NoSummary == [total_texts |-> 0, agreements |-> 0, disagreements |-> 0, errors |-> 0]
GeminiResponse(code, results, summary) ==
    [status |-> code, results |-> results, summary |-> summary]

\* service_gemini.py predict_gemini and service_gemini_only.py predict
predict_gemini(body, env, answers) ==
    LET api_key == key_or_env(body.gemini_api_key, env)
    IN  IF body.texts = <<>> THEN GeminiResponse(400, <<>>, NoSummary)
        ELSE IF api_key \in {NoKey, ""} THEN GeminiResponse(400, <<>>, NoSummary)
        ELSE IF \E i \in 1..Len(body.texts) : answers[i].raised
        THEN GeminiResponse(500, <<>>, NoSummary)
        ELSE GeminiResponse(200,
                 [i \in 1..Len(body.texts) |->
                     [is_fake |-> answers[i].is_fake,
                      confidence |-> answers[i].confidence]],
                 NoSummary)

\* text[:100] + "..." if len(text) > 100 else text
TextLimit == 100
shorten(t) ==
    IF Len(t) > TextLimit THEN SubSeq(t, 1, TextLimit) \o <<".", ".", ".">> ELSE t

\* a faulty variant of agreement_of: a failed Gemini call counts as a
\* disagreement
agreement_of_failed_false(traditional_label, gemini_label) ==
    IF gemini_label = <<>> THEN "False"
    ELSE IF traditional_label = gemini_label[1] THEN "True" ELSE "False"

\* traditional_label == gemini_label if gemini_label is not None else None
agreement_of(traditional_label, gemini_label) ==
    IF gemini_label = <<>> THEN "None"
    ELSE IF traditional_label = gemini_label[1] THEN "True" ELSE "False"

\* one pass of the loop of predict_compare; a label of None is <<>>
compare_one(model, t, answer) ==
    LET traditional_prob == predict_proba(model, <<t>>).values[1]
        traditional_label == IF traditional_prob >= DefaultThreshold THEN 1 ELSE 0
        gemini_label == IF answer.raised THEN <<>>
                        ELSE IF answer.is_fake THEN <<1>> ELSE <<0>>
        gemini_confidence == IF answer.raised THEN 0 ELSE answer.confidence
    IN  [text |-> shorten(t),
         traditional |-> [label |-> traditional_label, probability |-> traditional_prob],
         gemini |-> [label |-> gemini_label, confidence |-> gemini_confidence],
         agreement |-> agreement_of(traditional_label, gemini_label)]

\* service_gemini.py, predict_compare
predict_compare(a, body, env, answers) ==
    LET api_key == key_or_env(body.gemini_api_key, env)
        results == [i \in 1..Len(body.texts) |->
                       compare_one(a.model[1], body.texts[i], answers[i])]
        tally(agreement) ==
            Cardinality({i \in 1..Len(results) : results[i].agreement = agreement})
    IN  IF body.texts = <<>> THEN GeminiResponse(400, <<>>, NoSummary)
        ELSE IF api_key \in {NoKey, ""} THEN GeminiResponse(400, <<>>, NoSummary)
        ELSE IF ~a.model_loaded THEN GeminiResponse(503, <<>>, NoSummary)
        ELSE GeminiResponse(200, results,
                 [total_texts |-> Len(body.texts),
                  agreements |-> tally("True"),
                  disagreements |-> tally("False"),
                  errors |-> Cardinality({i \in 1..Len(results) :
                                             results[i].gemini.label = <<>>})])

\* the endpoints of each kind of app
Endpoints(kind) ==
    IF kind = "basic" THEN {"/predict"}
    ELSE IF kind = "enhanced" THEN {"/predict", "/predict/gemini", "/predict/compare"}
    ELSE IF kind = "gemini_only" THEN {"/predict"}
    ELSE {}

NoExchange ==
    [endpoint |-> "none", texts |-> <<>>, gemini_api_key |-> NoKey, env |-> NoKey,
     answers |-> <<>>, response |-> GeminiResponse(0, <<>>, NoSummary)]

InitEndpoints ==
    /\ disk0 \in DisksBefore
    /\ disk = disk0
    /\ saver = [s \in Savers |-> NoSave]
    /\ last_done = "none"
    /\ got = NoLoad
    /\ app = NoApp
    /\ request = NoRequest
    /\ response = NoResponse
    /\ cli = NoCli
    /\ exchange = NoExchange
    /\ NormalizerIdle
    /\ LoaderIdle
    /\ InferIdle
    /\ SplitterIdle
    /\ TrainIdle

\* one of the three apps is created over the model directory
CreateAnyApp ==
    /\ app = NoApp
    /\ app' \in {create_app(disk), create_enhanced_app(disk), create_gemini_only_app}
    /\ UNCHANGED <<request, response, nvars, lvars, ivars, svars, pvars, xvars>>

\* a client posts to /predict of an app that serves the trained model
PostTrained ==
    /\ app.kind \in {"basic", "enhanced"}
    /\ exchange = NoExchange
    /\ PostPredict

\* a client posts to /predict/gemini, or to /predict of the Gemini-only app
PostGemini ==
    /\ app.status = "serving"
    /\ response = NoResponse
    /\ exchange = NoExchange
    /\ \E endpoint \in Endpoints(app.kind) \cap
                           (IF app.kind = "gemini_only" THEN {"/predict"}
                            ELSE {"/predict/gemini"}),
          texts \in Batches(MaxBatch), key \in RequestKeys, env \in EnvKeys :
         \E answers \in [1..Len(texts) -> GeminiAnswers] :
           LET body == [texts |-> texts, gemini_api_key |-> key]
           IN  exchange' = [endpoint |-> endpoint, texts |-> texts,
                            gemini_api_key |-> key, env |-> env, answers |-> answers,
                            response |-> predict_gemini(body, env, answers)]
    /\ UNCHANGED <<app, request, response, cli, run, nvars, lvars, ivars, svars, pvars>>

\* a client posts to /predict/compare of the enhanced app
PostCompare ==
    /\ app.status = "serving"
    /\ "/predict/compare" \in Endpoints(app.kind)
    /\ response = NoResponse
    /\ exchange = NoExchange
    /\ \E texts \in Batches(MaxBatch), key \in RequestKeys, env \in EnvKeys :
         \E answers \in [1..Len(texts) -> GeminiAnswers] :
           LET body == [texts |-> texts, gemini_api_key |-> key]
           IN  exchange' = [endpoint |-> "/predict/compare", texts |-> texts,
                            gemini_api_key |-> key, env |-> env, answers |-> answers,
                            response |-> predict_compare(app, body, env, answers)]
    /\ UNCHANGED <<app, request, response, cli, run, nvars, lvars, ivars, svars, pvars>>

\* the client takes the response of a Gemini endpoint
TakeExchange ==
    /\ exchange # NoExchange
    /\ exchange' = NoExchange
    /\ UNCHANGED <<app, request, response, cli, run, nvars, lvars, ivars, svars, pvars>>

NextEndpoints ==
    \/ CreateAnyApp
    \/ PostTrained
    \/ PostGemini
    \/ PostCompare
    \/ TakeResponse
    \/ TakeExchange

SpecEndpoints == InitEndpoints /\ [][NextEndpoints]_vars

(***************************************************************************)
(* Claims about the endpoints                                              *)
(***************************************************************************)
\* C21: every prediction endpoint answers a request whose batch of texts
\* is empty with a 4xx status and an empty body, the model not having been
\* run, whatever the other fields of the request and whether or not a
\* model artifact was loaded.
C21_EmptyBatchRefused ==
    /\ (response # NoResponse /\ request.texts = <<>>) =>
           /\ response.status \in 400..499
           /\ response.labels = <<>>
           /\ response.probabilities = <<>>
    /\ (exchange # NoExchange /\ exchange.texts = <<>>) =>
           /\ exchange.response.status \in 400..499
           /\ exchange.response.results = <<>>

\* the results of the response whose agreement is v
Agreeing(v) ==
    {i \in 1..Len(exchange.response.results) :
        exchange.response.results[i].agreement = v}

\* C28: in every /predict/compare response there is one result per input
\* text, in input order; agreements + disagreements + errors equals
\* total_texts; a result's agreement is null exactly when its second-model
\* label is null, so that a result is counted in exactly one of the three
\* tallies.
C28_CompareTallies ==
    (exchange.endpoint = "/predict/compare" /\ exchange.response.status = 200) =>
        LET results == exchange.response.results
            summary == exchange.response.summary
        IN  /\ Len(results) = Len(exchange.texts)
            /\ \A i \in 1..Len(results) :
                   /\ results[i].text = shorten(exchange.texts[i])
                   /\ results[i].traditional.probability
                          = proba_fake(app.model[1],
                                       normalize_whitespace(exchange.texts[i]))
                   /\ results[i].gemini.label = <<>> <=> exchange.answers[i].raised
                   /\ results[i].agreement = "None" <=> results[i].gemini.label = <<>>
                   /\ results[i].agreement \in {"True", "False", "None"}
            /\ summary.total_texts = Len(exchange.texts)
            /\ summary.agreements = Cardinality(Agreeing("True"))
            /\ summary.disagreements = Cardinality(Agreeing("False"))
            /\ summary.errors = Cardinality(Agreeing("None"))
            /\ summary.agreements + summary.disagreements + summary.errors
                   = summary.total_texts

\* a comparison of two texts, the second model failing on the first of them
\* and disagreeing with the trained model on the other
C28_Witness ==
    /\ exchange.endpoint = "/predict/compare"
    /\ exchange.response.status = 200
    /\ Len(exchange.texts) = 2
    /\ exchange.answers[1].raised
    /\ ~exchange.answers[2].raised
    /\ exchange.response.summary.errors = 1
    /\ exchange.response.summary.disagreements = 1

(***************************************************************************)
(* Training run -- src/fake_news/train.py, train_main                      *)
(*                                                                         *)
(* A run loads, splits and trains in memory, then saves the pipeline with  *)
(* save_model (the steps of the model store), writes the metrics sidecar   *)
(* and prints the two paths.  An uncaught exception ends the run with      *)
(* exit status 1.  Two runs may share the model directory.                 *)
(***************************************************************************)
\* the values of a column
values_of(series) == [j \in 1..Len(series) |-> series[j].value]

\* a run that ended in an error before anything was saved
NoMetrics == [correct |-> 0, support |-> 0]
TrainFailed(error) ==
    [status |-> error, pipeline |-> build_pipeline, metrics |-> NoMetrics]

\* train_main, lines 32-47: load_dataset_csv (its result is `data`),
\* train_val_split and train_model
train_compute(data, test_size, seed, global) ==
    LET ds == train_val_split(data.rows, test_size, seed, global)
        r == train_model(values_of(ds.X_train), values_of(ds.y_train),
                         values_of(ds.X_val), values_of(ds.y_val))
    IN  IF data.status # "ok" THEN TrainFailed(data.status)
        ELSE IF ds.status # "ok" THEN TrainFailed(ds.status)
        ELSE IF r.status # "ok" THEN TrainFailed(r.status)
        ELSE r

\* json.dumps(metrics, indent=2), as the one block write_text writes
json_dumps(m) ==
    << [part |-> "json", fitted |-> FALSE, vocabulary |-> <<>>,
        coef |-> <<m.correct, m.support>>] >>

\* a name of the model directory that is itself a directory
Directory == << [part |-> "dir", fitted |-> FALSE, vocabulary |-> <<>>, coef |-> <<>>] >>

\* Path.write_text: the file is created or replaced; IsADirectoryError when
\* the name is a directory
write_text(d, name, content) ==
    IF name \in DOMAIN d.files /\ d.files[name] = Directory
    THEN [status |-> "IsADirectoryError", disk |-> d]
    ELSE [status |-> "ok",
          disk |-> [d EXCEPT !.files = [n \in DOMAIN d.files \cup {name} |->
                                           IF n = name THEN content ELSE d.files[n]]]]

\* cfg.model_dir / "metrics.json"
metrics_path(model_dir) == Append(model_dir, SIDECAR)

\* what load_dataset_csv gives a run (an error, or the rows), and the model
\* directories a run may find: those of the store, and one whose
\* metrics.json is a directory
MaxTrainData == 4
TrainData ==
    {[status |-> e, rows |-> <<>>] : e \in {"SchemaError", "LabelFormatError"}}
    \cup {[status |-> "ok", rows |-> d] : d \in Datasets(MaxTrainData)}

\* what lines 32-47 give over these inputs, the fractions and the seeds
TrainOutcomes ==
    {train_compute(data, test_size, seed, 0) :
         data \in TrainData, test_size \in ValSizes, seed \in Seeds}

TrainDisks ==
    DisksBefore \cup {[exists |-> TRUE, files |-> [n \in {SIDECAR} |-> Directory]]}

NoRun == [pc |-> "off", status |-> "none", pipeline |-> build_pipeline,
          metrics |-> NoMetrics, exit |-> 0, printed |-> <<>>]

InitTrain ==
    /\ disk0 \in TrainDisks
    /\ disk = disk0
    /\ saver = [s \in Savers |-> NoSave]
    /\ last_done = "none"
    /\ got = NoLoad
    /\ \E off2 \in BOOLEAN :
           run = [s \in Savers |->
                     IF s = "s2" /\ off2 THEN NoRun ELSE [NoRun EXCEPT !.pc = "start"]]
    /\ cli = <<>>
    /\ exchange = <<>>
    /\ NormalizerIdle
    /\ LoaderIdle
    /\ InferIdle
    /\ SplitterIdle
    /\ ServiceIdle

\* train_main, lines 32-47; on success save_model is called (line 49)
TrainCompute(s) ==
    /\ run[s].pc = "start"
    /\ \E r \in TrainOutcomes :
             IF r.status # "ok"
             THEN /\ run' = [run EXCEPT ![s].pc = "exited", ![s].status = r.status,
                                        ![s].exit = 1]
                  /\ saver' = saver
             ELSE /\ run' = [run EXCEPT ![s].pc = "saving", ![s].status = "ok",
                                        ![s].pipeline = r.pipeline,
                                        ![s].metrics = r.metrics]
                  /\ saver' = [saver EXCEPT ![s] = [NoSave EXCEPT !.pc = "start",
                                                          !.pipeline = r.pipeline]]
    /\ UNCHANGED <<disk, disk0, last_done, got, cli, exchange,
                   nvars, lvars, ivars, pvars, wvars>>

\* train_main, line 50: the metrics sidecar is written
WriteMetrics(s) ==
    /\ run[s].pc = "saving"
    /\ saver[s].pc = "done"
    /\ LET w == write_text(disk, SIDECAR, json_dumps(run[s].metrics))
       IN  /\ disk' = w.disk
           /\ run' = IF w.status = "ok"
                     THEN [run EXCEPT ![s].pc = "written"]
                     ELSE [run EXCEPT ![s].pc = "exited", ![s].status = w.status,
                                      ![s].exit = 1]
    /\ UNCHANGED <<disk0, saver, last_done, got, cli, exchange,
                   nvars, lvars, ivars, pvars, wvars>>

\* train_main, lines 51-52: the two paths are printed and the run ends
PrintPaths(s) ==
    /\ run[s].pc = "written"
    /\ run' = [run EXCEPT ![s].pc = "exited",
                          ![s].printed = <<saver[s].returned,
                                           metrics_path(DEFAULT_MODEL_DIR)>>]
    /\ UNCHANGED <<disk, disk0, saver, last_done, got, cli, exchange,
                   nvars, lvars, ivars, pvars, wvars>>

NextTrain ==
    \E s \in Savers :
        \/ TrainCompute(s)
        \/ SaveMkdir(s)
        \/ SaveOpen(s)
        \/ SaveWrite(s)
        \/ SaveReturn(s)
        \/ WriteMetrics(s)
        \/ PrintPaths(s)

SpecTrain == InitTrain /\ [][NextTrain]_vars

(***************************************************************************)
(* Claims about training runs                                              *)
(***************************************************************************)
\* the train runs of this behaviour
Runs == {s \in Savers : run[s].pc # "off"}

\* file n of the model directory is as it was before the runs
Untouched(n) ==
    /\ n \in DOMAIN disk.files <=> n \in DOMAIN disk0.files
    /\ n \in DOMAIN disk.files => disk.files[n] = disk0.files[n]

\* C23: a train run has one of two outcomes.  It fails on an error in
\* loading, splitting, training or saving, exits non-zero and leaves no new
\* artifact or metrics file in the model directory; or it exits zero having
\* written the artifact and the metrics sidecar and printed their paths.
\* (Stated of a run that is alone in its directory.)
C23_TrainAllOrNothing ==
    \A s \in Savers :
        (Runs = {s} /\ run[s].pc = "exited") =>
            \/ /\ run[s].exit # 0
               /\ run[s].status # "ok"
               /\ run[s].printed = <<>>
               /\ Untouched(ARTIFACT)
               /\ Untouched(SIDECAR)
            \/ /\ run[s].exit = 0
               /\ run[s].status = "ok"
               /\ exists(disk, ARTIFACT)
               /\ disk.files[ARTIFACT] = pickle(run[s].pipeline)
               /\ exists(disk, SIDECAR)
               /\ disk.files[SIDECAR] = json_dumps(run[s].metrics)
               /\ run[s].printed = <<model_path(DEFAULT_MODEL_DIR),
                                     metrics_path(DEFAULT_MODEL_DIR)>>

\* both runs have ended, each having written its artifact and its sidecar
BothFinished ==
    /\ Runs = Savers
    /\ \A s \in Savers : run[s].pc = "exited" /\ run[s].exit = 0

\* C25: after any interleaving of two training runs on the same model
\* directory, once both have finished the metrics sidecar in the directory
\* was produced by the run that produced the model artifact in it.
C25_SidecarMatchesArtifact ==
    BothFinished =>
        \E s \in Savers :
            /\ disk.files[ARTIFACT] = pickle(run[s].pipeline)
            /\ disk.files[SIDECAR] = json_dumps(run[s].metrics)

(***************************************************************************)
(* The whole system: each component on its own inputs                      *)
(***************************************************************************)
Init == InitNormalize \/ InitLoad \/ InitInfer \/ InitStore \/ InitSplit
        \/ InitService \/ InitEndpoints \/ InitTrain

Next == NextNormalize \/ NextLoad \/ NextInfer \/ NextStore \/ NextSplit
        \/ NextService \/ NextEndpoints \/ NextTrain

Spec == Init /\ [][Next]_vars

====
